---- MODULE Spec2Model ----
(***************************************************************************)
(* ble-chirp: model of the wire codec, the fragmenter, the crypto          *)
(* envelope, the receive loop (dedup, decrypt, reassembly, relay           *)
(* scheduling) and the send path of src/main.rs.                           *)
(*                                                                         *)
(* A byte is a number in 0..255, a buffer (Vec<u8>, &[u8], [u8; N]) is a   *)
(* sequence of bytes.  The source indexes from 0, TLA+ sequences from 1:   *)
(* md[i] of the source is md[i + 1] here.                                  *)
(***************************************************************************)
EXTENDS Integers, Sequences, FiniteSets, TLC

\* ---------------------------------------------------------------- constants

\* const COMPANY_ID: u16 = 0xFFFF
COMPANY_ID == 65535
\* const VER: u8 = 1
VER == 1
\* const MAX_PAYLOAD: usize = 20
MAX_PAYLOAD == 20
\* the number of values of a u8 (`as u8` keeps a value modulo this)
U8 == 256
\* the Poly1305 tag ChaCha20Poly1305 appends to a ciphertext, in bytes
TAG_LEN == 16
\* KeyBytes = [u8; 32]
KEY_LEN == 32

\* The dedup window's capacity.  The source's is 2048; the model scales it
\* down so that eviction happens within a few events.  No message of the
\* model has more fragments than this, as no message of the program can
\* have more than 255 < 2048.
SeenCap == 2
\* The number of inbound events one behaviour of the receive loop processes.
MaxEvents == 4
\* The number of nodes of the network, and the largest ttl a fragment is
\* originated with there (besides 255, the largest a u8 holds).
NumNodes == 3
MaxTtl == 2
\* One token of the RateLimiter (1.0) in fixed-point units.
TOKEN == 4
\* The last tick at which acquire is called, and the longest Duration, in
\* ticks (the source's is u64::MAX seconds).
MaxTime == 4
DurationMax == 3
\* The number of advertising tasks one chat node spawns.
MaxTasks == 3

\* ------------------------------------------------------------------ helpers

Min(a, b) == IF a < b THEN a ELSE b
Max(a, b) == IF a > b THEN a ELSE b

\* Option<T> and a panic (an index out of bounds aborts the task)
None == [tag |-> "None"]
Some(v) == [tag |-> "Some", val |-> v]
Panic == [tag |-> "Panic"]

\* Result<T>
Ok(v) == [tag |-> "Ok", val |-> v]
Err == [tag |-> "Err"]

\* u16::to_le_bytes and u16::from_le_bytes
to_le_bytes(x) == <<x % U8, x \div U8>>
from_le_bytes(b0, b1) == b0 + U8 * b1

\* md[s..] of the source (s is 0-based)
SliceFrom(md, s) == SubSeq(md, s + 1, Len(md))

\* -------------------------------------------------------------- wire codec

pack_frame(f) ==
    to_le_bytes(COMPANY_ID) \o <<VER>> \o <<f.topic>> \o <<f.ttl>>
        \o f.msg_id \o <<f.seq>> \o <<f.tot>> \o f.payload

\* where unpack_frame starts to read: 2 when the buffer begins with the
\* company id, 0 otherwise
tag_offset(md) ==
    IF Len(md) >= 2
    THEN IF from_le_bytes(md[1], md[2]) = COMPANY_ID THEN 2 ELSE 0
    ELSE 0

\* the fields read from offset i on, once the length check and the version
\* check have passed; a read at or past Len(md) panics
read_fields(md, i) ==
    IF i + 8 >= Len(md)
    THEN Panic
    ELSE Some([topic   |-> md[i + 2],
               ttl     |-> md[i + 3],
               msg_id  |-> <<md[i + 4], md[i + 5], md[i + 6], md[i + 7]>>,
               seq     |-> md[i + 8],
               tot     |-> md[i + 9],
               payload |-> SliceFrom(md, i + 9)])

unpack_frame_short_check(md) ==
    LET i == tag_offset(md) IN
    IF Len(md) < i + 1 + 1 + 1 + 4 + 1
    THEN None
    ELSE IF i >= Len(md) THEN Panic
    ELSE IF md[i + 1] # VER THEN None
    ELSE read_fields(md, i)

unpack_frame_high_byte_tag(md) ==
    LET i == IF Len(md) >= 2 /\ md[2] = 255 THEN 2 ELSE 0 IN
    IF Len(md) < i + 1 + 1 + 1 + 4 + 1 + 1
    THEN None
    ELSE IF i >= Len(md) THEN Panic
    ELSE IF md[i + 1] # VER THEN None
    ELSE read_fields(md, i)

unpack_frame(md) ==
    LET i == tag_offset(md) IN
    IF Len(md) < i + 1 + 1 + 1 + 4 + 1 + 1
    THEN None
    ELSE IF i >= Len(md) THEN Panic
    ELSE IF md[i + 1] # VER THEN None
    ELSE read_fields(md, i)

\* --------------------------------------------------------------- fragmenter

\* Vec<(u8, u8, Vec<u8>)>: the k-th element is <<seq, tot, payload>>.
\* tot is computed in usize and cast with `as u8`.
chunk_message(bytes) ==
    LET tot == Max((Len(bytes) + MAX_PAYLOAD - 1) \div MAX_PAYLOAD, 1) % U8 IN
    [k \in 1..tot |->
        LET i == k - 1
            s == i * MAX_PAYLOAD
            e == Min(s + MAX_PAYLOAD, Len(bytes))
        IN <<i, tot, SubSeq(bytes, s + 1, e)>>]

\* ---------------------------------------------------------- crypto envelope
\* ChaCha20Poly1305 is a library: the model keeps what the program relies
\* on.  A ciphertext is the plaintext masked byte by byte with a keystream
\* of (key, nonce), followed by a TAG_LEN-byte tag of (key, nonce, masked
\* bytes); decrypt recomputes the tag and fails on any mismatch and on a
\* buffer shorter than the tag.

RECURSIVE WeightedSum(_, _)
WeightedSum(s, w) ==
    IF s = <<>> THEN 0
    ELSE (Head(s) * w + WeightedSum(Tail(s), w + 2)) % 65521

\* nonce_bytes: msg_id, then seq, then seven zero bytes
nonce_bytes(msg_id, seq) == msg_id \o <<seq>> \o [j \in 1..7 |-> 0]

keystream(key, nonce, j) ==
    (key[((j - 1) % KEY_LEN) + 1] + WeightedSum(nonce, 3) + 7 * j) % U8

poly_tag(key, nonce, body) ==
    LET h == (WeightedSum(key, 5) + 31 * WeightedSum(nonce, 7)
                 + 131 * WeightedSum(body, 11) + Len(body)) % 65521
    IN [t \in 1..TAG_LEN |-> ((h \div (1 + (t % 7))) + t * h) % U8]

encrypt(key, msg_id, seq, payload) ==
    LET nonce == nonce_bytes(msg_id, seq)
        body == [j \in 1..Len(payload) |->
                    (payload[j] + keystream(key, nonce, j)) % U8]
    IN Ok(body \o poly_tag(key, nonce, body))

decrypt(key, msg_id, seq, payload) ==
    LET nonce == nonce_bytes(msg_id, seq) IN
    IF Len(payload) < TAG_LEN THEN Err
    ELSE LET body == SubSeq(payload, 1, Len(payload) - TAG_LEN)
             tag == SubSeq(payload, Len(payload) - TAG_LEN + 1, Len(payload))
         IN IF tag # poly_tag(key, nonce, body) THEN Err
            ELSE Ok([j \in 1..Len(body) |->
                        (body[j] - keystream(key, nonce, j)) % U8])

\* ------------------------------------------------------ String::from_utf8_lossy
\* The length of the longest valid UTF-8 sequence or, negated, of the
\* invalid sequence that starts b (b is not empty).

Cont(b, k, lo, hi) == Len(b) >= k /\ b[k] >= lo /\ b[k] <= hi

utf8_step(b) ==
    LET b0 == b[1] IN
    IF b0 < 128 THEN 1
    ELSE IF b0 >= 194 /\ b0 <= 223
         THEN IF Cont(b, 2, 128, 191) THEN 2 ELSE -1
    ELSE IF b0 >= 224 /\ b0 <= 239
         THEN LET lo == IF b0 = 224 THEN 160 ELSE 128
                  hi == IF b0 = 237 THEN 159 ELSE 191
              IN IF ~Cont(b, 2, lo, hi) THEN -1
                 ELSE IF ~Cont(b, 3, 128, 191) THEN -2
                 ELSE 3
    ELSE IF b0 >= 240 /\ b0 <= 244
         THEN LET lo == IF b0 = 240 THEN 144 ELSE 128
                  hi == IF b0 = 244 THEN 143 ELSE 191
              IN IF ~Cont(b, 2, lo, hi) THEN -1
                 ELSE IF ~Cont(b, 3, 128, 191) THEN -2
                 ELSE IF ~Cont(b, 4, 128, 191) THEN -3
                 ELSE 4
    ELSE -1

\* The UTF-8 bytes of the String from_utf8_lossy returns: valid sequences
\* are kept, each invalid one becomes U+FFFD (EF BF BD).
RECURSIVE from_utf8_lossy(_)
from_utf8_lossy(b) ==
    IF b = <<>> THEN <<>>
    ELSE LET n == utf8_step(b) IN
         IF n > 0
         THEN SubSeq(b, 1, n) \o from_utf8_lossy(SubSeq(b, n + 1, Len(b)))
         ELSE <<239, 191, 189>> \o from_utf8_lossy(SubSeq(b, 1 - n, Len(b)))

\* ------------------------------------------------------------- receive loop
\* rx_loop's state: seen (the dedup window, oldest first), reasm (msg_id ->
\* (tot, seq -> payload, topic)), and what it has done to the outside: the
\* calls of on_msg (delivered) and the tasks it spawned (spawned), in order.
\* last names the branch the latest iteration of the loop took.

EmptyMap == [k \in {} |-> <<>>]

InitRxState ==
    [seen |-> <<>>, reasm |-> EmptyMap, delivered |-> <<>>,
     spawned |-> <<>>, last |-> "Start"]

\* if let Some(t) = topic_filter { if f.topic != t { continue; } }
topic_rejected_never(topic_filter, f) == FALSE

topic_rejected(topic_filter, f) ==
    topic_filter.tag = "Some" /\ f.topic # topic_filter.val

\* seen.iter().any(|(id, s)| *id == f.msg_id && *s == f.seq)
seen_any(seen, f) ==
    \E k \in 1..Len(seen) : seen[k][1] = f.msg_id /\ seen[k][2] = f.seq

\* if seen.len() >= 2048 { seen.pop_front(); } seen.push_back(..)
seen_push_no_pop(seen, f) == Append(seen, <<f.msg_id, f.seq>>)

seen_push(seen, f) ==
    LET s == IF Len(seen) >= SeenCap THEN Tail(seen) ELSE seen
    IN Append(s, <<f.msg_id, f.seq>>)

\* reasm.entry(f.msg_id).or_insert_with(|| (f.tot, HashMap::new(), f.topic))
\* followed by entry.1.insert(f.seq, payload)
reasm_insert(reasm, f, payload) ==
    LET entry == IF f.msg_id \in DOMAIN reasm
                 THEN reasm[f.msg_id]
                 ELSE [tot |-> f.tot, parts |-> EmptyMap, topic |-> f.topic]
    IN [entry EXCEPT !.parts = (f.seq :> payload) @@ @]

\* entry.1.len() as u8 == entry.0
entry_complete(entry) == Cardinality(DOMAIN entry.parts) % U8 = entry.tot

\* for i in 0..entry.0 { if let Some(p) = entry.1.get(&i) { extend } }
RECURSIVE gather(_, _, _)
gather(parts, i, tot) ==
    IF i >= tot THEN <<>>
    ELSE (IF i \in DOMAIN parts THEN parts[i] ELSE <<>>)
             \o gather(parts, i + 1, tot)

reasm_remove_never(reasm, id) == reasm

\* reasm.remove(&f.msg_id)
reasm_remove(reasm, id) == [k \in DOMAIN reasm \ {id} |-> reasm[k]]

\* if relay && f.ttl > 0
relay_due_any_ttl(relay, f) == relay

relay_due(relay, f) == relay /\ f.ttl > 0

\* f.ttl -= 1; the frame handed to do_relay
relay_frame_same_ttl(f) == f

\* the frame with its payload cut to the length of the plaintext
relay_frame_without_tag(f) ==
    [f EXCEPT !.ttl = @ - 1,
              !.payload = SubSeq(@, 1, Max(Len(@) - TAG_LEN, 0))]

relay_frame(f) == [f EXCEPT !.ttl = @ - 1]

\* The part of an iteration after the dedup window has taken the pair:
\* decrypt, reassembly, delivery, relay.
rx_accept(relay, key, st, f) ==
    LET d == IF key.tag = "Some"
             THEN decrypt(key.val, f.msg_id, f.seq, f.payload)
             ELSE Ok(f.payload)
    IN
    IF d.tag = "Err" THEN [st EXCEPT !.last = "DecryptErr"]
    ELSE
      LET entry == reasm_insert(st.reasm, f, d.val)
          done == entry_complete(entry)
          text == from_utf8_lossy(gather(entry.parts, 0, entry.tot))
          st1 == IF done
                 THEN [st EXCEPT
                         !.delivered = Append(@, [topic |-> entry.topic,
                                                  msg_id |-> f.msg_id,
                                                  text |-> text]),
                         !.reasm = reasm_remove(@, f.msg_id),
                         !.last = "Delivered"]
                 ELSE [st EXCEPT
                         !.reasm = (f.msg_id :> entry) @@ @,
                         !.last = "Stored"]
      IN IF relay_due(relay, f)
         THEN [st1 EXCEPT !.spawned = Append(@, relay_frame(f))]
         ELSE st1

\* One iteration of `while let Some(evt) = events.next().await` on an
\* advertisement whose manufacturer data for COMPANY_ID is md.
rx_iter(topic_filter, relay, key, st, md) ==
    LET u == unpack_frame(md) IN
    IF u.tag = "Panic" THEN [st EXCEPT !.last = "Panic"]
    ELSE IF u.tag = "None" THEN [st EXCEPT !.last = "NoFrame"]
    ELSE
      LET f == u.val IN
      IF topic_rejected(topic_filter, f) THEN [st EXCEPT !.last = "Filtered"]
      ELSE IF seen_any(st.seen, f) THEN [st EXCEPT !.last = "Duplicate"]
      ELSE rx_accept(relay, key,
                     [st EXCEPT !.seen = seen_push(@, f)], f)

\* ------------------------------------------------------------ the environment

ID_A == <<1, 2, 3, 4>>
ID_B == <<9, 9, 9, 9>>
MsgIds == {ID_A, ID_B}

KEY_1 == [j \in 1..KEY_LEN |-> 17]
KEY_2 == [j \in 1..KEY_LEN |-> 42]

Frame(topic, ttl, msg_id, seq, tot, payload) ==
    [topic |-> topic, ttl |-> ttl, msg_id |-> msg_id, seq |-> seq,
     tot |-> tot, payload |-> payload]

\* A two-fragment message encrypted under KEY_1.
FrameG0 == Frame(5, 1, ID_A, 0, 2, encrypt(KEY_1, ID_A, 0, <<104>>).val)
FrameG1 == Frame(5, 0, ID_A, 1, 2, encrypt(KEY_1, ID_A, 1, <<105>>).val)
\* The first fragment's pair under another key.
FrameX0 == Frame(5, 1, ID_A, 0, 2, encrypt(KEY_2, ID_A, 0, <<104>>).val)
\* A one-fragment message encrypted under KEY_1.
FrameQ0 == Frame(5, 2, ID_B, 0, 1, encrypt(KEY_1, ID_B, 0, <<111, 107>>).val)
\* A one-fragment plaintext message with ttl 0.
FrameP0 == Frame(5, 0, ID_B, 0, 1, <<104, 105>>)
\* A frame of the same message whose seq is not below its tot.
FrameP1 == Frame(5, 255, ID_B, 1, 1, <<255>>)
\* The pair of FrameP0 on another topic, with an empty payload.
FrameO0 == Frame(7, 1, ID_B, 0, 1, <<>>)

GoodFrames ==
    {FrameG0, FrameG1, FrameX0, FrameQ0, FrameP0, FrameP1, FrameO0}

\* Buffers unpack_frame has to refuse: too short with and without the tag,
\* and a version other than VER.
Noise ==
    { <<>>, <<255>>, <<1>>, <<255, 255>>, <<1, 5>>,
      <<255, 255, 1>>,
      <<1, 5, 1, 9, 9, 9, 9, 0>>,
      <<255, 255, 1, 5, 1, 9, 9, 9, 9, 0>>,
      <<255, 1, 5, 1, 9, 9, 9, 9, 0, 1>>,
      <<2, 5, 1, 9, 9, 9, 9, 0, 1, 104>>,
      <<255, 255, 2, 5, 1, 9, 9, 9, 9, 0, 1, 104>>,
      <<255, 255, 0, 5, 1, 9, 9, 9, 9, 0, 1>> }

\* What the scan may hand to the loop: packed frames, the same frames with
\* the company id stripped by the transport, and noise.
Inbound ==
    {pack_frame(f) : f \in GoodFrames}
        \cup {SliceFrom(pack_frame(f), 2) : f \in {FrameP0, FrameO0, FrameG1}}
        \cup Noise

TopicFilters == {None, Some(5)}
Keys == {None, Some(KEY_1)}

VARIABLES
    \* rx_loop: its parameters, its locals, its effects
    topic_filter, relay, key, seen, reasm, delivered, spawned, last, nevents,
    \* a second run of rx_loop beside the first
    twin, diverged,
    \* the codec applied to one frame
    codec,
    \* tx: its parameters, locals and position; what the peripheral was
    \* made to advertise, in order
    tx, advertised,
    \* a network of nodes that each run rx_loop and do_relay: the nodes'
    \* loops, the advertisements made so far, the relay tasks
    net, air, tasks,
    \* a RateLimiter and the clock it reads
    rl, now,
    \* the tasks of one chat node that advertise on its peripheral
    chat

rxvars == <<topic_filter, relay, key, seen, reasm, delivered, spawned, last,
            nevents>>
twinvars == <<twin, diverged>>
txvars == <<tx, advertised>>
netvars == <<net, air, tasks>>
rlvars == <<rl, now>>
vars == <<rxvars, twinvars, codec, txvars, netvars, rlvars, chat>>

RxState ==
    [seen |-> seen, reasm |-> reasm, delivered |-> delivered,
     spawned |-> spawned, last |-> last]

InitRx ==
    /\ topic_filter \in TopicFilters
    /\ relay \in BOOLEAN
    /\ key \in Keys
    /\ seen = InitRxState.seen
    /\ reasm = InitRxState.reasm
    /\ delivered = InitRxState.delivered
    /\ spawned = InitRxState.spawned
    /\ last = InitRxState.last
    /\ nevents = 0

IdleTwin == twin = InitRxState /\ diverged = FALSE
IdleCodec == codec = [pc |-> "idle"]
IdleTx == tx = [pc |-> "idle"] /\ advertised = <<>>
IdleNet == net = <<>> /\ air = {} /\ tasks = {}
IdleRl == rl = [pc |-> "none"] /\ now = 0
IdleChat == chat = [pc |-> "none"]

\* The loop takes the next advertisement from the scan.
RxEvent(md) ==
    /\ nevents < MaxEvents
    /\ last # "Panic"
    /\ LET st == rx_iter(topic_filter, relay, key, RxState, md) IN
       /\ seen' = st.seen
       /\ reasm' = st.reasm
       /\ delivered' = st.delivered
       /\ spawned' = st.spawned
       /\ last' = st.last
    /\ nevents' = nevents + 1
    /\ UNCHANGED <<topic_filter, relay, key>>

\* ---------------------------------------------------------------------------
\* Spec: one receive loop fed any sequence of buffers of Inbound.

Init ==
    InitRx /\ IdleTwin /\ IdleCodec /\ IdleTx /\ IdleNet /\ IdleRl /\ IdleChat

Next ==
    \E md \in Inbound : RxEvent(md) /\ UNCHANGED <<twinvars, codec, txvars, netvars, rlvars, chat>>

Spec == Init /\ [][Next]_vars

\* ---------------------------------------------------------------------------
\* SpecTwin: two runs of rx_loop with the same parameters and the same
\* inbound buffers, except for one event at which the first run is handed a
\* frame that its decrypt rejects and the second a buffer that unpack_frame
\* rejects.

TwinState == twin

RxEventTwin(md) ==
    twin' = rx_iter(topic_filter, relay, key, TwinState, md)

TwinBoth(md) ==
    /\ RxEvent(md)
    /\ RxEventTwin(md)
    /\ UNCHANGED <<diverged, codec, txvars, netvars, rlvars, chat>>

TwinDiverge(x, y) ==
    /\ ~diverged
    /\ rx_iter(topic_filter, relay, key, RxState, x).last = "DecryptErr"
    /\ unpack_frame(y).tag = "None"
    /\ RxEvent(x)
    /\ RxEventTwin(y)
    /\ diverged' = TRUE
    /\ UNCHANGED <<codec, txvars, netvars, rlvars, chat>>

NextTwin ==
    \/ \E md \in Inbound : TwinBoth(md)
    \/ \E x \in Inbound, y \in Noise : TwinDiverge(x, y)

SpecTwin == Init /\ [][NextTwin]_vars

\* ---------------------------------------------------------------------------
\* SpecCodec: a frame is packed, the transport hands the bytes on with or
\* without the company id in front, and the bytes are unpacked.

CodecFrames ==
    { Frame(topic, ttl, msg_id, seq, tot, payload) :
        topic \in {0, 1, 255}, ttl \in {0, 255},
        msg_id \in {ID_A, <<255, 255, 255, 255>>, <<1, 1, 1, 1>>},
        seq \in {0, 1, 255}, tot \in {0, 1, 255},
        payload \in {<<>>, <<1>>, <<255, 255, 1>>} }

InitCodec ==
    \E f \in CodecFrames :
        codec = [pc |-> "frame", f |-> f, md |-> <<>>, tagged |-> TRUE,
                 out |-> None]

CodecPack ==
    /\ codec.pc = "frame"
    /\ codec' = [codec EXCEPT !.pc = "packed", !.md = pack_frame(codec.f)]

\* the transport strips the manufacturer id it has used as the map's key
CodecStrip ==
    /\ codec.pc = "packed"
    /\ codec.tagged
    /\ codec' = [codec EXCEPT !.md = SliceFrom(@, 2), !.tagged = FALSE]

CodecUnpack ==
    /\ codec.pc = "packed"
    /\ codec' = [codec EXCEPT !.pc = "unpacked", !.out = unpack_frame(codec.md)]

IdleRx ==
    /\ topic_filter = None
    /\ relay = FALSE
    /\ key = None
    /\ seen = InitRxState.seen
    /\ reasm = InitRxState.reasm
    /\ delivered = InitRxState.delivered
    /\ spawned = InitRxState.spawned
    /\ last = InitRxState.last
    /\ nevents = 0

NextCodec ==
    \/ CodecPack /\ UNCHANGED <<rxvars, twinvars, txvars, netvars, rlvars, chat>>
    \/ CodecStrip /\ UNCHANGED <<rxvars, twinvars, txvars, netvars, rlvars, chat>>
    \/ CodecUnpack /\ UNCHANGED <<rxvars, twinvars, txvars, netvars, rlvars, chat>>

InitSpecCodec ==
    /\ IdleRx /\ IdleTwin /\ IdleTx /\ IdleNet /\ IdleRl /\ IdleChat
    /\ InitCodec

SpecCodec == InitSpecCodec /\ [][NextCodec]_vars

\* ---------------------------------------------------------------------------
\* SpecTx: one call of tx, and a receive loop with the same key that hears
\* what tx has advertised, in any order and any number of times (the frames
\* stay on the air through the relays of other nodes).

\* the message tx is called with: n ASCII bytes
Msg(n) == [j \in 1..n |-> 97 + (j % 26)]

\* lengths around the chunk size and around 255 chunks
MsgLens == {0, 1, 20, 21, 40, 5101, 5121}

\* after `adapter.peripheral().await.context(..)?`
tx_after_peripheral(ok, chunks) ==
    IF ~ok THEN "err"
    ELSE IF chunks = <<>> THEN "done"
    ELSE "acquire"

\* after `peripheral.start_advertising(..).await?`
tx_after_start(ok) == IF ok THEN "dwell" ELSE "err"

\* after `peripheral.stop_advertising().await?`
tx_after_stop_ignored(ok) == "gap"

tx_after_stop(ok) == IF ok THEN "gap" ELSE "err"

\* the bytes tx hands to start_advertising for the chunk (seq, tot, payload)
tx_frame(topic, ttl, msg_id, k, chunk) ==
    LET p == IF k.tag = "Some"
             THEN encrypt(k.val, msg_id, chunk[1], chunk[3])
             ELSE Ok(chunk[3])
    IN IF p.tag = "Err" THEN Err
       ELSE Ok(pack_frame(Frame(topic, ttl, msg_id, chunk[1], chunk[2],
                                p.val)))

InitTx ==
    /\ \E n \in MsgLens, ttl \in {0, 3} :
          tx = [pc |-> "begin", topic |-> 5, ttl |-> ttl, len |-> n,
                chunks |-> <<>>, i |-> 0, msg_id |-> ID_A]
    /\ advertised = <<>>

\* chunk_message, adapter.peripheral(), rand::random (lines 229-232)
TxBegin(ok, id) ==
    /\ tx.pc = "begin"
    /\ LET chunks == chunk_message(Msg(tx.len)) IN
       tx' = [tx EXCEPT !.chunks = chunks, !.msg_id = id, !.i = 1,
                        !.pc = tx_after_peripheral(ok, chunks)]
    /\ UNCHANGED advertised

\* rl.acquire().await returns
TxAcquire ==
    /\ tx.pc = "acquire"
    /\ tx' = [tx EXCEPT !.pc = "start"]
    /\ UNCHANGED advertised

\* encrypt, pack_frame, start_advertising (lines 244-274)
TxStart(ok) ==
    /\ tx.pc = "start"
    /\ LET md == tx_frame(tx.topic, tx.ttl, tx.msg_id, key, tx.chunks[tx.i])
       IN IF md.tag = "Err"
          THEN tx' = [tx EXCEPT !.pc = "err"] /\ UNCHANGED advertised
          ELSE /\ tx' = [tx EXCEPT !.pc = tx_after_start(ok)]
               /\ advertised' = IF ok THEN Append(advertised, md.val)
                                 ELSE advertised

\* sleep(dwell_ms)
TxDwell ==
    /\ tx.pc = "dwell"
    /\ tx' = [tx EXCEPT !.pc = "stop"]
    /\ UNCHANGED advertised

\* stop_advertising (line 276)
TxStop(ok) ==
    /\ tx.pc = "stop"
    /\ tx' = [tx EXCEPT !.pc = tx_after_stop(ok)]
    /\ UNCHANGED advertised

\* sleep(60 ms), then the next chunk or Ok(())
TxGap ==
    /\ tx.pc = "gap"
    /\ tx' = [tx EXCEPT !.i = @ + 1,
                        !.pc = IF tx.i + 1 > Len(tx.chunks) THEN "done"
                               ELSE "acquire"]
    /\ UNCHANGED advertised

OnAir == {advertised[k] : k \in DOMAIN advertised}

TxStep ==
    \/ \E ok \in BOOLEAN, id \in MsgIds : TxBegin(ok, id)
    \/ TxAcquire
    \/ \E ok \in BOOLEAN : TxStart(ok)
    \/ TxDwell
    \/ \E ok \in BOOLEAN : TxStop(ok)
    \/ TxGap

NextTx ==
    \/ TxStep /\ UNCHANGED <<rxvars, twinvars, codec, netvars, rlvars, chat>>
    \/ \E md \in OnAir : RxEvent(md) /\ UNCHANGED <<twinvars, codec, txvars, netvars, rlvars, chat>>

InitSpecTx ==
    /\ InitRx /\ IdleTwin /\ IdleCodec /\ IdleNet /\ IdleRl /\ IdleChat
    /\ InitTx

SpecTx == InitSpecTx /\ [][NextTx]_vars

\* ---------------------------------------------------------------------------
\* SpecNet: NumNodes nodes in range of each other and of an originator.
\* Each node runs rx_loop with the same parameters and a do_relay task per
\* frame its loop hands on.  An advertisement carries, besides its bytes,
\* the number of relay steps behind it (hops), the ttl it was originated
\* with (ttl0) and the node that made it (0: the originator).

Nodes == 1..NumNodes

OrigFrames == {[FrameQ0 EXCEPT !.ttl = t] : t \in (0..MaxTtl) \cup {U8 - 1}}

InitNet ==
    /\ net = [n \in Nodes |-> InitRxState]
    /\ \E f \in OrigFrames :
          air = {[md |-> pack_frame(f), hops |-> 0, ttl0 |-> f.ttl,
                  from |-> 0]}
    /\ tasks = {}

\* the frames rx_loop spawned a do_relay for in the step from st to st1
new_spawned(st, st1) ==
    {st1.spawned[k] : k \in (Len(st.spawned) + 1)..Len(st1.spawned)}

\* what node n's loop does with advertisement a
net_iter(n, a) == rx_iter(topic_filter, relay, key, net[n], a.md)

\* Of the branch a loop took last the network keeps only whether the task
\* is still running.
node_state(st) ==
    [st EXCEPT !.last = IF st.last = "Panic" THEN "Panic" ELSE "Start"]

\* Node n's loop takes advertisement a, which another node made.
NetRx(n, a) ==
    /\ a \in air
    /\ a.from # n
    /\ net[n].last # "Panic"
    /\ LET st == net_iter(n, a) IN
       /\ net' = [net EXCEPT ![n] = node_state(st)]
       /\ tasks' = tasks \cup
             {[node |-> n, f |-> g, hops |-> a.hops + 1, ttl0 |-> a.ttl0] :
                 g \in new_spawned(net[n], st)}
    /\ UNCHANGED air

\* do_relay: sleep(backoff_ms), adapter.peripheral(), pack_frame(&f),
\* start_advertising, sleep(300 ms), stop_advertising.  The task returns
\* early when the peripheral or start_advertising fails (ok = FALSE); the
\* result of stop_advertising is dropped.  The network keeps no state of a
\* peripheral, so the task is one step here.
do_relay(t, ok) ==
    /\ t \in tasks
    /\ tasks' = tasks \ {t}
    /\ air' = IF ok
              THEN air \cup {[md |-> pack_frame(t.f), hops |-> t.hops,
                              ttl0 |-> t.ttl0, from |-> t.node]}
              ELSE air
    /\ UNCHANGED net

\* a spawned do_relay task runs
RelayStep ==
    \E t \in tasks, ok \in BOOLEAN :
        do_relay(t, ok)
            /\ UNCHANGED <<rxvars, twinvars, codec, txvars, rlvars, chat>>

NextNet ==
    \/ \E n \in Nodes, a \in air :
          NetRx(n, a) /\ UNCHANGED <<rxvars, twinvars, codec, txvars, rlvars, chat>>
    \/ RelayStep

InitSpecNet ==
    /\ InitRx /\ IdleTwin /\ IdleCodec /\ IdleTx /\ IdleRl /\ IdleChat
    /\ InitNet

SpecNet == InitSpecNet /\ [][NextNet]_vars

\* the runtime runs every spawned task
SpecNetFair == SpecNet /\ WF_vars(RelayStep)

\* ---------------------------------------------------------------------------
\* SpecRl: one RateLimiter and its single caller (acquire takes &mut self).
\* The f64 quantities are fixed-point numbers: TOKEN units make one token,
\* the clock counts ticks, and a rate is a number of units per tick, so
\* that rates below TOKEN are the rates below 1.0.  sleep wakes the caller
\* at the first tick at or after its deadline, or at any later tick.

\* RateLimiter::new(rate) at time t
rl_new(rate, t) ==
    [pc |-> "idle", capacity |-> Max(rate, TOKEN), tokens |-> Max(rate, TOKEN),
     rate |-> rate, last |-> t, wake |-> t, susp |-> 0, returned |-> 0]

\* refill that leaves self.last alone
refill_keeps_last(r, t) ==
    [r EXCEPT !.tokens = Min(@ + (t - r.last) * r.rate, r.capacity)]

\* RateLimiter::refill at time t
refill(r, t) ==
    [r EXCEPT !.tokens = Min(@ + (t - r.last) * r.rate, r.capacity),
              !.last = t]

\* (1.0 - self.tokens) / self.rate, in ticks: the first tick not before it
needed(r) == (TOKEN - r.tokens + r.rate - 1) \div r.rate

\* One iteration of acquire's loop at time t: refill, then either take a
\* token and return, or sleep.  Duration::from_secs_f64 panics on a value
\* that does not fit a Duration.
acquire_iter(r, t) ==
    LET q == refill(r, t) IN
    IF q.tokens >= TOKEN
    THEN [q EXCEPT !.tokens = @ - TOKEN, !.pc = "idle",
                   !.returned = @ + 1]
    ELSE IF needed(q) > DurationMax
    THEN [q EXCEPT !.pc = "panic"]
    ELSE [q EXCEPT !.pc = "sleep", !.wake = t + needed(q),
                   !.susp = @ + 1]

\* rates below 1.0, 1.0 and above 1.0
Rates == {1, 2, TOKEN, 2 * TOKEN}

InitRl ==
    /\ now = 0
    /\ \E rate \in Rates : rl = rl_new(rate, 0)

\* the caller calls rl.acquire().await
Acquire ==
    /\ rl.pc = "idle"
    /\ now < MaxTime
    /\ rl' = acquire_iter([rl EXCEPT !.susp = 0], now)
    /\ UNCHANGED now

\* the sleep is over and the loop goes round
Wake ==
    /\ rl.pc = "sleep"
    /\ now >= rl.wake
    /\ rl' = acquire_iter(rl, now)
    /\ UNCHANGED now

\* Instant::now() moves on
Tick ==
    /\ now < MaxTime \/ (rl.pc = "sleep" /\ now < rl.wake)
    /\ now' = now + 1
    /\ UNCHANGED rl

WakeStep ==
    Wake /\ UNCHANGED <<rxvars, twinvars, codec, txvars, netvars, chat>>

TickStep ==
    Tick /\ UNCHANGED <<rxvars, twinvars, codec, txvars, netvars, chat>>

NextRl ==
    \/ Acquire /\ UNCHANGED <<rxvars, twinvars, codec, txvars, netvars, chat>>
    \/ WakeStep
    \/ TickStep

InitSpecRl ==
    /\ IdleRx /\ IdleTwin /\ IdleCodec /\ IdleTx /\ IdleNet /\ IdleChat
    /\ InitRl

SpecRl == InitSpecRl /\ [][NextRl]_vars

\* the timer fires and the clock advances
SpecRlFair == SpecRl /\ WF_vars(WakeStep) /\ WF_vars(TickStep)

\* ---------------------------------------------------------------------------
\* SpecChat: the tasks of one chat node that advertise.  chat spawns a tx
\* per Enter and rx_loop a do_relay per relayed frame, each on a clone of
\* the adapter, so all of them drive the one peripheral of the device.  A
\* task is [kind, pc, left]: left is the number of fragments a tx has yet to
\* send; pc is "wait" before start_advertising (acquire, backoff), "live"
\* between its start_advertising and its stop_advertising, "done" after.
\* chat.adv is the task whose advertisement the peripheral carries, 0 when
\* it carries none: start_advertising replaces what is advertised and
\* stop_advertising ends it, whoever started it; the program holds no lock
\* around the two calls.

InitChat == chat = [tasks |-> <<>>, adv |-> 0]

chat_spawn(kind, left) ==
    /\ Len(chat.tasks) < MaxTasks
    /\ chat' = [chat EXCEPT !.tasks =
                   Append(@, [kind |-> kind, pc |-> "wait", left |-> left])]

\* Enter: tokio::spawn(tx(..)) for a message of 1 or 2 fragments
ChatEnter == \E left \in 1..2 : chat_spawn("tx", left)

\* rx_loop: tokio::spawn(do_relay(..))
ChatRelay == chat_spawn("relay", 1)

\* task t calls start_advertising; on Err tx returns the error and do_relay
\* returns
TaskStart(t, ok) ==
    /\ chat.tasks[t].pc = "wait"
    /\ chat' = IF ok
               THEN [chat EXCEPT !.tasks[t].pc = "live", !.adv = t]
               ELSE [chat EXCEPT !.tasks[t].pc = "done"]

\* task t's dwell is over and it calls stop_advertising; tx returns on Err
\* and otherwise goes on to its next fragment, do_relay drops the result
TaskStop(t, ok) ==
    /\ chat.tasks[t].pc = "live"
    /\ LET task == chat.tasks[t]
           more == task.kind = "tx" /\ ok /\ task.left > 1
       IN chat' = [chat EXCEPT
                     !.tasks[t].pc = IF more THEN "wait" ELSE "done",
                     !.tasks[t].left = IF more THEN @ - 1 ELSE @,
                     !.adv = IF ok THEN 0 ELSE @]

NextChat ==
    \/ ChatEnter /\ UNCHANGED <<rxvars, twinvars, codec, txvars, netvars, rlvars>>
    \/ ChatRelay /\ UNCHANGED <<rxvars, twinvars, codec, txvars, netvars, rlvars>>
    \/ \E t \in DOMAIN chat.tasks, ok \in BOOLEAN :
          TaskStart(t, ok)
              /\ UNCHANGED <<rxvars, twinvars, codec, txvars, netvars, rlvars>>
    \/ \E t \in DOMAIN chat.tasks, ok \in BOOLEAN :
          TaskStop(t, ok)
              /\ UNCHANGED <<rxvars, twinvars, codec, txvars, netvars, rlvars>>

InitSpecChat ==
    /\ IdleRx /\ IdleTwin /\ IdleCodec /\ IdleTx /\ IdleNet /\ IdleRl
    /\ InitChat

SpecChat == InitSpecChat /\ [][NextChat]_vars

\* ------------------------------------------------------------------- claims

\* how often on_msg was called for msg_id id
Deliveries(id) ==
    Cardinality({k \in DOMAIN delivered : delivered[k].msg_id = id})

\* what the loop keeps and what it has done, without the bookkeeping
RxEffects == <<seen, reasm, delivered, spawned>>

\* C1: for every msg_id, on_msg is invoked at most once, whatever frames
\* arrive after the message was reconstructed and its entry removed.
C1_AtMostOneDelivery == \A id \in MsgIds : Deliveries(id) <= 1

\* C4: a frame whose pair is in the dedup window changes nothing (it is
\* dropped before decrypt, reassembly and relay); the delivery that put the
\* pair into the window made exactly one insertion into the reassembly entry
\* and scheduled at most one relay.
C4_DedupIdempotent ==
    [][\A md \in Inbound :
          LET u == unpack_frame(md) IN
          (RxEvent(md) /\ u.tag = "Some"
                /\ ~topic_rejected(topic_filter, u.val))
            => IF seen_any(seen, u.val)
               THEN UNCHANGED RxEffects
               ELSE /\ last' \in {"Stored", "Delivered"}
                    /\ Len(spawned') <= Len(spawned) + 1]_vars

\* C6: with relay enabled, every fresh, topic-accepted fragment with ttl > 0
\* is handed to a relay task with ttl decremented, whether or not the node
\* can decrypt it and whether or not it completes a message.
C6_RelayWhateverDecrypt ==
    [][\A md \in Inbound :
          LET u == unpack_frame(md) IN
          (RxEvent(md) /\ relay /\ u.tag = "Some"
                /\ ~topic_rejected(topic_filter, u.val)
                /\ ~seen_any(seen, u.val)
                /\ u.val.ttl > 0)
            => spawned' = Append(spawned, [u.val EXCEPT !.ttl = @ - 1])]_vars

\* the buffer without its 2-byte transport tag, if it has one
Untagged(md) ==
    IF Len(md) >= 2 /\ md[1] = 255 /\ md[2] = 255
    THEN SubSeq(md, 3, Len(md))
    ELSE md

\* C8: unpack_frame never reads past the end of the buffer; it returns no
\* frame exactly when fewer than 9 bytes remain after the tag or the version
\* byte is not VER; and a buffer it rejects changes nothing in the loop.
C8_UnpackTotal ==
    [][\A md \in Inbound :
          RxEvent(md) =>
            LET u == unpack_frame(md)
                b == Untagged(md)
            IN /\ u.tag # "Panic"
               /\ last' # "Panic"
               /\ (u.tag = "None") <=> (Len(b) < 9 \/ b[1] # VER)
               /\ (u.tag = "None") => UNCHANGED RxEffects]_vars

C8_Witness ==
    /\ last = "NoFrame"
    /\ nevents = 2
    /\ seen # <<>>

\* C9: under a topic filter t a frame of another topic is dropped before the
\* dedup step: nothing changes, and a frame of topic t with the same pair is
\* afterwards neither a duplicate nor filtered.
C9_FilterBeforeDedup ==
    [][\A md \in Inbound :
          LET u == unpack_frame(md) IN
          (RxEvent(md) /\ topic_filter.tag = "Some" /\ u.tag = "Some"
                /\ u.val.topic # topic_filter.val)
            => /\ UNCHANGED RxEffects
               /\ last' = "Filtered"
               /\ \A md2 \in Inbound :
                     LET u2 == unpack_frame(md2) IN
                     (u2.tag = "Some"
                        /\ u2.val.topic = topic_filter.val
                        /\ u2.val.msg_id = u.val.msg_id
                        /\ u2.val.seq = u.val.seq
                        /\ ~seen_any(seen, u2.val))
                       => rx_iter(topic_filter, relay, key, RxState', md2).last
                             \in {"DecryptErr", "Stored", "Delivered"}]_vars

C9_Witness ==
    /\ topic_filter = Some(5)
    /\ last = "Filtered"
    /\ nevents = 1
    /\ seen = <<>>
    /\ rx_iter(topic_filter, relay, key, RxState, pack_frame(FrameP0)).last
          = "Delivered"

\* C3: a run in which a frame is rejected by decrypt and a run in which a
\* buffer is rejected by unpack_frame in its place, fed the same buffers
\* otherwise, deliver the same messages and schedule the same relays.
C3_DecryptRejectLikeMalformed ==
    /\ delivered = twin.delivered
    /\ spawned = twin.spawned

\* C7: unpacking a packed frame gives the frame back, field for field, with
\* the 2-byte transport tag in front and without it.
C7_RoundTrip ==
    codec.pc = "unpacked" => codec.out = Some(codec.f)

C7_Witness ==
    /\ codec.pc = "unpacked"
    /\ ~codec.tagged
    /\ codec.f.topic = 255
    /\ codec.f.payload = <<255, 255, 1>>
    /\ codec.out = Some(codec.f)

\* every fragment tx made has been taken into the receive loop's window
AllFed ==
    \A k \in DOMAIN tx.chunks :
        \E j \in DOMAIN seen : seen[j] = <<tx.msg_id, tx.chunks[k][1]>>

\* C2: once all fragments chunk_message made of b have reached the receive
\* loop, in any order and with duplicates, there has been exactly one
\* delivery, and its bytes are b.
C2_ReassemblyIdentity ==
    (tx.pc = "done" /\ AllFed)
        => /\ Len(delivered) = 1
           /\ delivered[1].text = Msg(tx.len)

\* the seq of the k-th advertisement
AdvertisedSeq(k) == unpack_frame(advertised[k]).val.seq

\* C10: tx advertises the fragments of its message in seq order, each once;
\* when start_advertising or stop_advertising fails for a fragment, tx
\* returns the failure and advertises nothing after it.
C10_TxSequentialAbort ==
    [][/\ \A k \in DOMAIN advertised' : AdvertisedSeq(k)' = k - 1
       /\ (TxStart(FALSE) \/ TxStop(FALSE)) => tx'.pc = "err"
       /\ tx.pc = "err" => (tx' = tx /\ advertised' = advertised)
       /\ tx'.pc = "err" => Len(advertised') <= tx'.i]_vars

C10_Witness ==
    /\ tx.pc = "err"
    /\ Len(tx.chunks) = 2
    /\ tx.i = 1
    /\ Len(advertised) = 1
    /\ nevents > 0

\* the frame advertisement a carries
AirFrame(a) == unpack_frame(a.md).val

\* C5: every relay step takes exactly 1 from ttl, so that a fragment relayed
\* k times has its ttl reduced by exactly k, never below 0; a frame received
\* with ttl = 0 goes through dedup and reassembly (and is delivered when it
\* completes its message) but no relay task is scheduled for it.
C5_TtlCountsHops ==
    [][/\ \A a \in air' :
             /\ AirFrame(a).ttl = a.ttl0 - a.hops
             /\ AirFrame(a).ttl \in 0..(U8 - 1)
       /\ \A t \in tasks' :
             /\ t.f.ttl = t.ttl0 - t.hops
             /\ t.f.ttl \in 0..(U8 - 1)
       /\ \A n \in Nodes, a \in air :
             NetRx(n, a) =>
               LET f == AirFrame(a) IN
               /\ \A t \in tasks' \ tasks :
                     /\ f.ttl > 0
                     /\ t.f = [f EXCEPT !.ttl = f.ttl - 1]
               /\ f.ttl = 0 =>
                     /\ tasks' = tasks
                     /\ net'[n].spawned = net[n].spawned
                     /\ (~topic_rejected(topic_filter, f)
                           /\ ~seen_any(net[n].seen, f))
                          => /\ seen_any(net'[n].seen, f)
                             /\ net_iter(n, a).last = "Delivered"
                             /\ Len(net'[n].delivered) = 1]_vars

\* The fragment was originated with ttl 2 and a copy relayed twice, with
\* ttl 0, is on the air; a node has delivered the message and its loop has
\* handed nothing to a relay task although relay is enabled: the copy it
\* took had ttl 0.
C5_Witness ==
    /\ relay
    /\ \E a \in air : a.hops = 0 /\ a.ttl0 = 2
    /\ \E a \in air : a.hops = 2 /\ AirFrame(a).ttl = 0
    /\ \E n \in Nodes :
          /\ Len(net[n].delivered) = 1
          /\ net[n].spawned = <<>>

\* C11: the dedup window never holds more than its capacity of pairs and
\* never the same pair twice; a fresh pair arriving at capacity evicts
\* exactly the oldest-inserted pair and becomes the newest; a pair that is
\* observed again keeps its place.
C11_WindowFifo ==
    [][/\ Len(seen') <= SeenCap
       /\ \A i, j \in DOMAIN seen' : i # j => seen'[i] # seen'[j]
       /\ \A md \in Inbound :
             RxEvent(md) =>
               LET u == unpack_frame(md) IN
               IF u.tag = "Some" /\ ~topic_rejected(topic_filter, u.val)
                     /\ ~seen_any(seen, u.val)
               THEN LET pair == <<u.val.msg_id, u.val.seq>> IN
                    IF Len(seen) = SeenCap
                    THEN seen' = Append(Tail(seen), pair)
                    ELSE seen' = Append(seen, pair)
               ELSE seen' = seen]_vars

\* The window is full and holds no pair of a msg_id whose message was
\* delivered: the pair that completed it has been evicted.
C11_Witness ==
    /\ Len(seen) = SeenCap
    /\ delivered # <<>>
    /\ delivered[1].msg_id = ID_B
    /\ \A k \in DOMAIN seen : seen[k][1] # ID_B

\* the payloads of the first k chunks, concatenated
RECURSIVE ConcatChunks(_, _)
ConcatChunks(chunks, k) ==
    IF k = 0 THEN <<>> ELSE ConcatChunks(chunks, k - 1) \o chunks[k][3]

\* C12: for an input of n bytes chunk_message returns max(1, ceil(n / 20))
\* fragments, each carrying that number as tot, with seq 0, 1, .. in order,
\* payloads of 20 bytes except the last, which has at most 20, and the
\* payloads concatenated are the input.
C12_ChunkCount ==
    tx.pc \notin {"idle", "begin"} =>
      LET n == tx.len
          chunks == tx.chunks
          count == Max((n + MAX_PAYLOAD - 1) \div MAX_PAYLOAD, 1)
      IN /\ Len(chunks) = count
         /\ \A k \in DOMAIN chunks :
               /\ chunks[k][1] = k - 1
               /\ chunks[k][2] = count
               /\ Len(chunks[k][3]) <= MAX_PAYLOAD
               /\ k < Len(chunks) => Len(chunks[k][3]) = MAX_PAYLOAD
         /\ ConcatChunks(chunks, Len(chunks)) = Msg(n)

\* C13: every frame tx hands to the transport has a payload of at most
\* MAX_PAYLOAD bytes and so a packed length of at most 11 + MAX_PAYLOAD,
\* with and without a key.
C13_FrameFitsCeiling ==
    \A k \in DOMAIN advertised :
        /\ Len(unpack_frame(advertised[k]).val.payload) <= MAX_PAYLOAD
        /\ Len(advertised[k]) <= 11 + MAX_PAYLOAD

\* C14: by time T since construction at most capacity + rate * T tokens'
\* worth of acquire calls have returned (in units: TOKEN per call).
C14_RateBound ==
    rl.pc # "none" => rl.returned * TOKEN <= rl.capacity + rl.rate * now

\* A limiter of rate 0.5 has let two calls return, the second after a
\* sleep, exactly when the bucket had refilled one token.
C14_Witness ==
    /\ rl.pc = "idle"
    /\ rl.rate = 2
    /\ rl.returned = 2
    /\ rl.susp = 1
    /\ rl.returned * TOKEN = rl.capacity + rl.rate * now

\* the reassembly entry of frame f once its payload is in it
EntryWith(f) ==
    LET d == IF key.tag = "Some"
             THEN decrypt(key.val, f.msg_id, f.seq, f.payload)
             ELSE Ok(f.payload)
    IN reasm_insert(reasm, f, d.val)

\* C15: when the loop delivers a message, the entry has tot >= 1 and a
\* payload for every seq of 0..tot-1 and for no other, and the text is made
\* of those payloads in seq order; a frame with seq >= tot or tot = 0 does
\* not complete a message.
C15_DeliveredComplete ==
    [][\A md \in Inbound :
          (RxEvent(md) /\ Len(delivered') > Len(delivered))
            => LET f == unpack_frame(md).val
                   entry == EntryWith(f)
               IN /\ entry.tot >= 1
                  /\ DOMAIN entry.parts = 0..(entry.tot - 1)
                  /\ f.seq < entry.tot
                  /\ delivered'[Len(delivered')].text =
                        from_utf8_lossy(gather(entry.parts, 0, entry.tot))]_vars

\* C16: a fragment originated with ttl k is never carried more than k hops
\* from its originator; every relayed copy has a ttl strictly smaller than
\* the copy that triggered it; and the flood ends: from some point on no
\* relay task is pending.
C16_FloodTerminates ==
    /\ [](\A a \in air : a.hops <= a.ttl0)
    /\ [](\A t \in tasks : t.hops <= t.ttl0)
    /\ [][\A n \in Nodes, a \in air :
             NetRx(n, a) =>
               \A t \in tasks' \ tasks : t.f.ttl < AirFrame(a).ttl]_vars
    /\ <>[](tasks = {})

\* The flood of a fragment originated with ttl 2 is over: every node has
\* delivered the message, a copy has gone the full 2 hops, and no relay
\* task is left.
C16_Witness ==
    /\ relay
    /\ tasks = {}
    /\ \E a \in air : a.ttl0 = 2 /\ a.hops = 2
    /\ Cardinality(air) >= 3
    /\ \A n \in Nodes : Len(net[n].delivered) = 1

\* the latest call of on_msg was made in this step, for msg_id id
DeliversNow(id) ==
    /\ Len(delivered') = Len(delivered) + 1
    /\ delivered'[Len(delivered')].msg_id = id

\* C17: an entry of the reassembly table comes into being in a step that
\* accepts a fragment of its msg_id, and goes in the step that delivers its
\* message and in no other: the delivering step leaves no entry for the
\* msg_id, every other step keeps every entry, and the table holds no more
\* entries than msg_ids were received.
C17_EntryLifetime ==
    [][\A id \in MsgIds :
          /\ (id \in DOMAIN reasm /\ id \notin DOMAIN reasm')
                => DeliversNow(id)
          /\ DeliversNow(id) => id \notin DOMAIN reasm'
          /\ (id \notin DOMAIN reasm /\ id \in DOMAIN reasm')
                => /\ last' = "Stored"
                   /\ \E k \in DOMAIN seen' : seen'[k][1] = id
          /\ Cardinality(DOMAIN reasm') <= Cardinality(MsgIds)]_vars

\* The entry of an incomplete message is still in the table after the
\* window has evicted its pair and another message has been delivered.
C17_Witness ==
    /\ ID_A \in DOMAIN reasm
    /\ \A k \in DOMAIN seen : seen[k][1] # ID_A
    /\ Len(seen) = SeenCap
    /\ delivered # <<>>
    /\ nevents = MaxEvents

\* C18: the frame handed to a relay task is the received frame with ttl one
\* less: topic, msg_id, seq, tot and payload are as received, the payload
\* being the bytes as they came in whether or not the loop decrypted them
\* for reassembly.
C18_RelayUnchanged ==
    [][\A md \in Inbound :
          (RxEvent(md) /\ spawned' # spawned)
            => LET f == unpack_frame(md).val
                   g == spawned'[Len(spawned')]
               IN /\ spawned' = Append(spawned, g)
                  /\ g.topic = f.topic
                  /\ g.msg_id = f.msg_id
                  /\ g.seq = f.seq
                  /\ g.tot = f.tot
                  /\ g.payload = f.payload
                  /\ g.ttl = f.ttl - 1]_vars

\* With a key, the loop has decrypted and delivered FrameQ0's message and
\* handed on the frame with the ciphertext it received.
C18_Witness ==
    /\ key = Some(KEY_1)
    /\ last = "Delivered"
    /\ delivered = <<[topic |-> 5, msg_id |-> ID_B, text |-> <<111, 107>>]>>
    /\ spawned = <<[FrameQ0 EXCEPT !.ttl = 1]>>
    /\ Len(spawned[1].payload) = 2 + TAG_LEN

\* C19: between a task's start_advertising and its own stop_advertising no
\* other task starts or stops advertising: no task starts while another is
\* in its dwell, and the peripheral carries the advertisement of the task
\* that is in its dwell.
C19_DwellUndisturbed ==
    \A t \in DOMAIN chat.tasks :
        chat.tasks[t].pc = "live"
          => /\ chat.adv = t
             /\ \A u \in DOMAIN chat.tasks \ {t} : chat.tasks[u].pc # "live"

\* C20: every call of acquire returns in the end, having slept at most
\* once and taken exactly one token from the bucket as refilled at the
\* moment of return; and the bucket always holds between 0 and capacity
\* tokens.
C20_AcquireReturns ==
    /\ [](rl.tokens >= 0 /\ rl.tokens <= rl.capacity)
    /\ [](rl.susp <= 1)
    /\ [][rl'.returned # rl.returned
            => /\ rl'.returned = rl.returned + 1
               /\ rl'.tokens = refill(rl, now).tokens - TOKEN]_vars
    /\ [](rl.pc # "idle" => <>(rl.pc = "idle"))
====
